---- MODULE Spec2Model ----
(***************************************************************************)
(* State-machine model of the signaling server (src/server(3).js): the     *)
(* rate limiter, the connection registry (userSockets), the presence       *)
(* subscription indices (presenceSubscriptions, socketSubscriptions) and   *)
(* the relay handlers.  Every socket.io event handler is one action: Node  *)
(* runs each handler to completion before the next event is dispatched.    *)
(*                                                                         *)
(* JavaScript values.  A string is a sequence of one-character strings     *)
(* (<<"a", " ">> is "a "), so that normKey really strips whitespace.       *)
(* undefined is the value Undefined.  A JS object used as a map            *)
(* (userSockets, presenceSubscriptions, socketSubscriptions) is a function *)
(* whose DOMAIN is the set of keys present; an array is a sequence.        *)
(***************************************************************************)
EXTENDS Integers, Sequences, FiniteSets, TLC

VARIABLES
    now,                    \* Date.now(), in ms
    rateLimit,              \* Map ip -> {count, startTime}
    userSockets,            \* pubKey -> socket.id
    presenceSubscriptions,  \* pubKey -> array of subscriber socket ids
    socketSubscriptions,    \* socket.id -> array of pubKeys as received
    dataPubKey,             \* socket.data.pubKey of every socket
    status,                 \* transport state of every socket
    rooms,                  \* socket.io adapter: room name -> member sockets
    pending,                \* request-connection handlers suspended at await
    emitted,                \* the emit calls of the handler that ran last
    bridge,                 \* the push-bridge calls of the handler that ran last
    last,                   \* the handler that ran last and its arguments
    calls,                  \* history: isRateLimited calls per ip in its window
    told                    \* history: what each subscriber was last told

vars == <<now, rateLimit, userSockets, presenceSubscriptions,
          socketSubscriptions, dataPubKey, status, rooms, pending,
          emitted, bridge, last, calls, told>>

-----------------------------------------------------------------------------
(* Bounds of the model *)

MaxList == 2        \* length of a subscribe-to-presence list
MaxSubscribers == 2 \* a reverse list this long takes no further subscribe
MaxCalls == 2       \* rate-limited calls per address, where the window is not the point
MaxWinCalls == 22   \* rate-limited calls per window in SpecRate and SpecBlock
MaxTicks == 2       \* clock advances in SpecRate

(* Program constants *)

LIMIT == 20
TIME_FRAME == 60000

-----------------------------------------------------------------------------
(* Values *)

Undefined == <<"undefined">>

WhiteSpace == {" ", "\t", "\n"}

Range(f) == {f[x] : x \in DOMAIN f}

\* socket ids, in the order the transport hands them out
AllSocketIds == <<"s1", "s2", "s3">>
SocketIds == Range(AllSocketIds)
\* the connections of the registry and presence runs
PresenceSockets == {"s1", "s2"}

\* socket.handshake.address of each socket: s1 and s2 share an address
Address(s) == IF s \in {"s1", "s2"} THEN "ip1" ELSE "ip2"

\* identities as clients send them: "a", "a ", " a", "b", " " and ""
KeyA == <<"a">>
KeyATrail == <<"a", " ">>
KeyALead == <<" ", "a">>
KeyB == <<"b">>
KeyBlank == <<" ">>
KeyEmpty == <<>>
RegisterInputs == {KeyA, KeyATrail, KeyB}
\* register arguments at the edge: blank, empty and missing
EdgeInputs == {KeyA, KeyBlank, KeyEmpty, Undefined}
SubscribeInputs == {KeyATrail, KeyB}
RelayTo == {KeyALead, KeyB}
RelayFrom == {KeyATrail, KeyB}

NamedRooms == {"room1", "room2"}
RoomNames == NamedRooms \cup SocketIds
Payloads == {"P1", "P2"}

ListsUpTo(S, n) == UNION {[1..k -> S] : k \in 0..n}

Max(S) == CHOOSE x \in S : \A y \in S : y <= x

-----------------------------------------------------------------------------
(* function normKey(k), line 174 *)

normKey(k) == IF k # Undefined
              THEN SelectSeq(k, LAMBDA c : c \notin WhiteSpace)
              ELSE k

\* JS truthiness of a string or undefined: "" and undefined are falsy
Truthy(v) == v # Undefined /\ v # <<>>

\* obj[key] is truthy: socket ids and arrays are always truthy
Has(obj, key) == key \in DOMAIN obj

\* obj[key] = value
Put(obj, key, value) == (key :> value) @@ obj

\* delete obj[key]
Delete(obj, key) == [k \in DOMAIN obj \ {key} |-> obj[k]]

-----------------------------------------------------------------------------
(* isRateLimited(socket), lines 130-154 *)

\* a limiter that blocks only past the ceiling
RateBlockedPast(rl, ip, t) ==
    /\ ip \in DOMAIN rl
    /\ ~(t - rl[ip].startTime > TIME_FRAME)
    /\ rl[ip].count > LIMIT

\* the value it returns
RateBlocked(rl, ip, t) ==
    /\ ip \in DOMAIN rl
    /\ ~(t - rl[ip].startTime > TIME_FRAME)
    /\ rl[ip].count >= LIMIT

\* a limiter that goes on counting the calls it blocks
RateAfterCounting(rl, ip, t) ==
    IF ip \notin DOMAIN rl
    THEN Put(rl, ip, [count |-> 1, startTime |-> t])
    ELSE IF t - rl[ip].startTime > TIME_FRAME
    THEN Put(rl, ip, [count |-> 1, startTime |-> t])
    ELSE Put(rl, ip, [count |-> rl[ip].count + 1, startTime |-> rl[ip].startTime])

\* the map it leaves
RateAfter(rl, ip, t) ==
    IF ip \notin DOMAIN rl
    THEN Put(rl, ip, [count |-> 1, startTime |-> t])
    ELSE IF t - rl[ip].startTime > TIME_FRAME
    THEN Put(rl, ip, [count |-> 1, startTime |-> t])
    ELSE IF rl[ip].count >= LIMIT
    THEN rl
    ELSE Put(rl, ip, [count |-> rl[ip].count + 1, startTime |-> rl[ip].startTime])

\* history: the calls made in the window the record describes, this one included
CallsAfter(c, rl, ip, t) ==
    IF ip \notin DOMAIN rl \/ t - rl[ip].startTime > TIME_FRAME
    THEN Put(c, ip, 1)
    ELSE Put(c, ip, c[ip] + 1)

-----------------------------------------------------------------------------
(* Messages *)

\* io.to(room).emit(ev, data) has except = {}; socket.to(room).emit(ev, data)
\* has except = {socket.id}; socket.emit(ev, data) goes to the socket's own room
Msg(to, except, ev, data) ==
    [to |-> to, except |-> except, ev |-> ev, data |-> data]

\* the connections an emit reaches: the members of the room, less the excepted
Recipients(m) == rooms[m.to] \ m.except

NoArgs == [pubKey |-> Undefined, list |-> <<>>, to |-> Undefined,
           from |-> Undefined, callType |-> "", room |-> "", payload |-> "",
           held |-> Undefined, admitted |-> TRUE, malformed |-> FALSE,
           threw |-> FALSE]

Last(op, s, args) == [op |-> op, sock |-> s, args |-> args]

\* history: the presence-update messages of em about identity k that reach
\* connection s, by position
UpdatesFor(em, rm, s, k) ==
    {i \in DOMAIN em : /\ em[i].ev = "presence-update"
                       /\ em[i].data.pubKey = k
                       /\ s \in rm[em[i].to] \ em[i].except}

\* history: what the subscribers were last told once the messages em are
\* delivered with the rooms as in rm: the status of the last presence-update
\* about a watched identity, or what they had been told before
ToldAfter(t, em, rm) ==
    IF em = << >> THEN t
    ELSE [s \in DOMAIN t |->
            [k \in DOMAIN t[s] |->
                LET updates == UpdatesFor(em, rm, s, k)
                IN  IF updates = {} THEN t[s][k]
                    ELSE em[Max(updates)].data.status]]

\* history: what a presence-initial-status reply tells the subscriber about
\* the identities of its list: online when the reply holds an entry of that
\* identity, offline otherwise
ToldBySubscribe(contactPubKeys, reply) ==
    [k \in {normKey(contactPubKeys[i]) : i \in DOMAIN contactPubKeys} |->
        IF \E i \in DOMAIN reply : normKey(reply[i]) = k
        THEN "online" ELSE "offline"]

-----------------------------------------------------------------------------
Init ==
    /\ now = 0
    /\ rateLimit = << >>
    /\ userSockets = << >>
    /\ presenceSubscriptions = << >>
    /\ socketSubscriptions = << >>
    /\ dataPubKey = [s \in SocketIds |-> Undefined]
    /\ status = [s \in SocketIds |-> "unborn"]
    /\ rooms = [r \in RoomNames |-> {}]
    /\ pending = {}
    /\ emitted = << >>
    /\ bridge = << >>
    /\ last = Last("init", "", NoArgs)
    /\ calls = << >>
    /\ told = << >>

(* io.on("connection"), line 176: the socket joins the room named by its id *)
Connect(s) ==
    /\ status[s] = "unborn"
    /\ \A t \in SocketIds : status[t] = "unborn" =>
           \E i, j \in DOMAIN AllSocketIds :
               AllSocketIds[i] = s /\ AllSocketIds[j] = t /\ i <= j
    /\ status' = [status EXCEPT ![s] = "open"]
    /\ rooms' = [rooms EXCEPT ![s] = @ \cup {s}]
    /\ emitted' = << >>
    /\ bridge' = << >>
    /\ last' = Last("connection", s, NoArgs)
    /\ UNCHANGED <<now, rateLimit, userSockets, presenceSubscriptions,
                   socketSubscriptions, dataPubKey, pending, calls, told>>

\* presenceSubscriptions[key], or no subscribers when the key is absent
SubscribersOf(ps, key) == IF Has(ps, key) THEN ps[key] ELSE << >>

\* a fan-out that stops one subscriber short
FanOutButLast(subscribers, key, st) ==
    [i \in 1..(Len(subscribers) - 1) |->
        Msg(subscribers[i], {}, "presence-update", [pubKey |-> key, status |-> st])]

\* subscribers.forEach(id => io.to(id).emit("presence-update", ...)),
\* lines 192-198 and 363-369
FanOut(subscribers, key, st) ==
    [i \in 1..Len(subscribers) |->
        Msg(subscribers[i], {}, "presence-update", [pubKey |-> key, status |-> st])]

\* a registry that keeps the first registration of a key
SetUserSocketFirstWins(us, key, s) == IF Has(us, key) THEN us ELSE Put(us, key, s)

\* userSockets[key] = socket.id, line 187
SetUserSocket(us, key, s) == Put(us, key, s)

(* socket.on("register"), lines 180-199 *)
Register(s, pubKey) ==
    LET ip == Address(s)
        blocked == RateBlocked(rateLimit, ip, now)
        key == normKey(pubKey)
    IN  /\ status[s] = "open"
        /\ rateLimit' = RateAfter(rateLimit, ip, now)
        /\ calls' = CallsAfter(calls, rateLimit, ip, now)
        /\ bridge' = << >>
        /\ last' = Last("register", s,
                        [NoArgs EXCEPT !.pubKey = pubKey, !.admitted = ~blocked])
        /\ IF blocked \/ ~Truthy(pubKey)
           THEN /\ emitted' = << >>
                /\ UNCHANGED <<userSockets, dataPubKey>>
           ELSE /\ userSockets' = SetUserSocket(userSockets, key, s)
                /\ dataPubKey' = [dataPubKey EXCEPT ![s] = key]
                /\ emitted' = FanOut(SubscribersOf(presenceSubscriptions, key),
                                     key, "online")
        /\ told' = ToldAfter(told, emitted', rooms)
        /\ UNCHANGED <<now, presenceSubscriptions, socketSubscriptions,
                       status, rooms, pending>>

\* a clean-up that drops the whole subscriber list of the identity
DropSubscriberAll(ps, pubKey, s) == Delete(ps, pubKey)

\* presenceSubscriptions[pubKey].filter(id => id !== socket.id), and the
\* delete of a list left empty: lines 211-216 and 375-380
DropSubscriber(ps, pubKey, s) ==
    IF Has(ps, pubKey)
    THEN LET kept == SelectSeq(ps[pubKey], LAMBDA id : id # s)
         IN  IF Len(kept) = 0 THEN Delete(ps, pubKey) ELSE Put(ps, pubKey, kept)
    ELSE ps

\* oldSubscriptions.forEach(...), lines 210-217 and 374-381
RECURSIVE CleanUp(_, _, _)
CleanUp(ps, list, s) ==
    IF list = << >> THEN ps
    ELSE CleanUp(DropSubscriber(ps, Head(list), s), Tail(list), s)

\* the clean-up of the lists the socket subscribed to, guarded as in
\* lines 208-209 and 372-373
CleanUpSocket(ps, ss, s) ==
    IF Has(ss, s) /\ Len(ss[s]) > 0 THEN CleanUp(ps, ss[s], s) ELSE ps

\* socketSubscriptions[socket.id] = contactPubKeys, line 221
StoreSubscriptions(ss, s, contactPubKeys) == Put(ss, s, contactPubKeys)

\* a push under the identity as received
PushSubscriberRaw(ps, pubKey, s) ==
    Put(ps, pubKey, Append(SubscribersOf(ps, pubKey), s))

\* presenceSubscriptions[key].push(socket.id), lines 223-227
PushSubscriber(ps, pubKey, s) ==
    LET key == normKey(pubKey)
    IN  Put(ps, key, Append(SubscribersOf(ps, key), s))

\* contactPubKeys.forEach(...), lines 222-228
RECURSIVE AddAll(_, _, _)
AddAll(ps, list, s) ==
    IF list = << >> THEN ps
    ELSE AddAll(PushSubscriber(ps, Head(list), s), Tail(list), s)

\* a snapshot that looks the entries up as received
InitialOnlineContactsRaw(us, contactPubKeys) ==
    SelectSeq(contactPubKeys, LAMBDA k : Has(us, k))

\* contactPubKeys.filter(key => !!userSockets[normKey(key)]), line 231
InitialOnlineContacts(us, contactPubKeys) ==
    SelectSeq(contactPubKeys, LAMBDA k : Has(us, normKey(k)))

(* socket.on("subscribe-to-presence"), lines 204-233, for an array of strings *)
Subscribe(s, contactPubKeys) ==
    /\ status[s] = "open"
    /\ presenceSubscriptions' =
           AddAll(CleanUpSocket(presenceSubscriptions, socketSubscriptions, s),
                  contactPubKeys, s)
    /\ socketSubscriptions' = StoreSubscriptions(socketSubscriptions, s, contactPubKeys)
    /\ emitted' = << Msg(s, {}, "presence-initial-status",
                         InitialOnlineContacts(userSockets, contactPubKeys)) >>
    /\ bridge' = << >>
    /\ last' = Last("subscribe-to-presence", s, [NoArgs EXCEPT !.list = contactPubKeys])
    /\ told' = Put(told, s, ToldBySubscribe(contactPubKeys, emitted'[1].data))
    /\ UNCHANGED <<now, rateLimit, userSockets, dataPubKey, status, rooms,
                   pending, calls>>

(* socket.on("subscribe-to-presence"), lines 204-233, for a payload that   *)
(* is not an array: missing, or a string.  undefined.length throws a       *)
(* TypeError on line 205, before anything is done.  A string has a length: *)
(* the old subscriptions are cleaned up (lines 208-218) and the string is  *)
(* stored (line 221) before contactPubKeys.forEach, which a string does    *)
(* not have, throws on line 222.  Nothing catches an error thrown by a     *)
(* socket.io listener and the file installs no uncaughtException handler,  *)
(* so the error ends the Node process: every connection is lost and no     *)
(* handler runs afterwards.                                                *)
SubscribeMalformed(s, payload) ==
    /\ status[s] = "open"
    /\ IF payload = Undefined
       THEN UNCHANGED <<presenceSubscriptions, socketSubscriptions>>
       ELSE /\ presenceSubscriptions' =
                   CleanUpSocket(presenceSubscriptions, socketSubscriptions, s)
            /\ socketSubscriptions' = StoreSubscriptions(socketSubscriptions, s, payload)
    /\ emitted' = << >>
    /\ bridge' = << >>
    /\ status' = [t \in SocketIds |-> "dead"]
    /\ rooms' = [r \in RoomNames |-> {}]
    /\ last' = Last("subscribe-to-presence", s,
                    [NoArgs EXCEPT !.list = payload, !.malformed = TRUE, !.threw = TRUE])
    /\ told' = << >>
    /\ UNCHANGED <<now, rateLimit, userSockets, dataPubKey, pending, calls>>

(* socket.on("disconnect"), lines 357-389; socket.io has taken the socket out *)
(* of its rooms before the handler runs                                      *)
Disconnect(s) ==
    LET pubKey == dataPubKey[s]
    IN  /\ status[s] = "open"
        /\ status' = [status EXCEPT ![s] = "closed"]
        /\ rooms' = [r \in RoomNames |-> rooms[r] \ {s}]
        /\ bridge' = << >>
        /\ last' = Last("disconnect", s, [NoArgs EXCEPT !.held = pubKey])
        /\ IF Truthy(pubKey)
           THEN /\ emitted' = FanOut(SubscribersOf(presenceSubscriptions, pubKey),
                                     pubKey, "offline")
                /\ presenceSubscriptions' =
                       CleanUpSocket(presenceSubscriptions, socketSubscriptions, s)
                /\ socketSubscriptions' = Delete(socketSubscriptions, s)
                /\ userSockets' = Delete(userSockets, pubKey)
           ELSE /\ emitted' = << >>
                /\ UNCHANGED <<presenceSubscriptions, socketSubscriptions, userSockets>>
        /\ told' = ToldAfter(Delete(told, s), emitted', rooms')
        /\ UNCHANGED <<now, rateLimit, dataPubKey, pending, calls>>

\* io.to(targetSocketId).emit("incoming-request", { from: fromKey }), line 248
IncomingRequest(targetSocketId, fromKey) ==
    Msg(targetSocketId, {}, "incoming-request", [from |-> fromKey])

(* socket.on("request-connection"), lines 236-253, up to the await of      *)
(* storage.getItem(`sub_${toKey}`), for string fields to and from          *)
RequestConnection(s, to, from) ==
    LET ip == Address(s)
        blocked == RateBlocked(rateLimit, ip, now)
        toKey == normKey(to)
        fromKey == normKey(from)
    IN  /\ status[s] = "open"
        /\ rateLimit' = RateAfter(rateLimit, ip, now)
        /\ calls' = CallsAfter(calls, rateLimit, ip, now)
        /\ last' = Last("request-connection", s,
                        [NoArgs EXCEPT !.to = to, !.from = from, !.admitted = ~blocked])
        /\ IF blocked
           THEN emitted' = << >> /\ bridge' = << >> /\ UNCHANGED pending
           ELSE IF Has(userSockets, toKey)
           THEN /\ emitted' = << IncomingRequest(userSockets[toKey], fromKey) >>
                /\ bridge' = << >>
                /\ UNCHANGED pending
           ELSE /\ emitted' = << >>
                /\ bridge' = << [call |-> "getItem", key |-> toKey] >>
                /\ pending' = pending \cup {toKey}
        /\ UNCHANGED <<now, userSockets, presenceSubscriptions,
                       socketSubscriptions, dataPubKey, status, rooms, told>>

\* a continuation that unregisters the identity it tried to push to
PushContinueUnregistering(toKey, subscription) ==
    /\ toKey \in pending
    /\ pending' = pending \ {toKey}
    /\ emitted' = << >>
    /\ bridge' = IF subscription
                 THEN << [call |-> "sendNotification", key |-> toKey] >>
                 ELSE << >>
    /\ userSockets' = IF subscription THEN Delete(userSockets, toKey) ELSE userSockets
    /\ last' = Last("push", "", [NoArgs EXCEPT !.to = toKey])
    /\ UNCHANGED <<now, rateLimit, presenceSubscriptions,
                   socketSubscriptions, dataPubKey, status, rooms, calls, told>>

(* the rest of the request-connection handler, lines 255-275, run when     *)
(* storage.getItem settles: subscription is what the store holds for the   *)
(* key.  webpush is declared nowhere in the file, so line 262 throws a     *)
(* ReferenceError, which the catch of line 264 logs: it has no statusCode  *)
(* and nothing is removed from the store.                                  *)
PushContinue(toKey, subscription) ==
    /\ toKey \in pending
    /\ pending' = pending \ {toKey}
    /\ emitted' = << >>
    /\ bridge' = IF subscription
                 THEN << [call |-> "sendNotification", key |-> toKey] >>
                 ELSE << >>
    /\ last' = Last("push", "", [NoArgs EXCEPT !.to = toKey])
    /\ UNCHANGED <<now, rateLimit, userSockets, presenceSubscriptions,
                   socketSubscriptions, dataPubKey, status, rooms, calls, told>>

\* const targetId = userSockets[normKey(to)];
\* if (targetId) { io.to(targetId).emit(ev, data) }: lines 281-283, 293-295,
\* 301-303, 309-311 and 317-319
Deliver(us, to, ev, data) ==
    IF Has(us, normKey(to)) THEN << Msg(us[normKey(to)], {}, ev, data) >> ELSE << >>

\* the body the five handlers of lines 280-322 share, for string fields;
\* none of them has an else branch that emits
Forward(op, s, to, from, callType, ev, data) ==
    /\ status[s] = "open"
    /\ emitted' = Deliver(userSockets, to, ev, data)
    /\ bridge' = << >>
    /\ last' = Last(op, s, [NoArgs EXCEPT !.to = to, !.from = from,
                                          !.callType = callType])
    /\ UNCHANGED <<now, rateLimit, userSockets, presenceSubscriptions,
                   socketSubscriptions, dataPubKey, status, rooms, pending, calls,
                   told>>

(* socket.on("accept-connection"), lines 280-288 *)
AcceptConnection(s, to, from) ==
    Forward("accept-connection", s, to, from, "",
            "connection-accepted", [from |-> normKey(from)])

(* socket.on("call-request"), lines 292-298 *)
CallRequest(s, to, from, callType) ==
    Forward("call-request", s, to, from, callType,
            "incoming-call", [from |-> normKey(from), callType |-> callType])

(* socket.on("call-accepted"), lines 300-306 *)
CallAccepted(s, to, from) ==
    Forward("call-accepted", s, to, from, "",
            "call-accepted", [from |-> normKey(from)])

(* socket.on("call-rejected"), lines 308-314 *)
CallRejected(s, to, from) ==
    Forward("call-rejected", s, to, from, "",
            "call-rejected", [from |-> normKey(from)])

(* socket.on("call-ended"), lines 316-322 *)
CallEnded(s, to, from) ==
    Forward("call-ended", s, to, from, "",
            "call-ended", [from |-> normKey(from)])

(* socket.on("join"), lines 327-330 *)
Join(s, room) ==
    /\ status[s] = "open"
    /\ rooms' = [rooms EXCEPT ![room] = @ \cup {s}]
    /\ emitted' = << >>
    /\ bridge' = << >>
    /\ last' = Last("join", s, [NoArgs EXCEPT !.room = room])
    /\ UNCHANGED <<now, rateLimit, userSockets, presenceSubscriptions,
                   socketSubscriptions, dataPubKey, status, pending, calls, told>>

\* io.to(room).emit: a broadcast that does not except the sender
BroadcastAll(s, ev, room, payload) ==
    Msg(room, {}, ev, [room |-> room, payload |-> payload])

\* socket.to(room).emit(ev, { room, payload }), lines 342 and 353
Broadcast(s, ev, room, payload) ==
    Msg(room, {s}, ev, [room |-> room, payload |-> payload])

(* socket.on("auth"), lines 333-347, and socket.on("signal"), lines 350-355 *)
Relay(ev, s, room, payload) ==
    /\ status[s] = "open"
    /\ emitted' = << Broadcast(s, ev, room, payload) >>
    /\ bridge' = << >>
    /\ last' = Last(ev, s, [NoArgs EXCEPT !.room = room, !.payload = payload])
    /\ UNCHANGED <<now, rateLimit, userSockets, presenceSubscriptions,
                   socketSubscriptions, dataPubKey, status, rooms, pending, calls,
                   told>>

Auth(s, room, payload) == Relay("auth", s, room, payload)

Signal(s, room, payload) == Relay("signal", s, room, payload)

(* Date.now() moves on *)
Tick(d) ==
    /\ now' = now + d
    /\ emitted' = << >>
    /\ bridge' = << >>
    /\ last' = Last("tick", "", NoArgs)
    /\ UNCHANGED <<rateLimit, userSockets, presenceSubscriptions,
                   socketSubscriptions, dataPubKey, status, rooms, pending, calls,
                   told>>

-----------------------------------------------------------------------------
(* The registry and the presence engine *)

CallsOf(ip) == IF ip \in DOMAIN calls THEN calls[ip] ELSE 0

LongestList == Max({0} \cup {Len(presenceSubscriptions[k]) : k \in DOMAIN presenceSubscriptions})

Next ==
    \/ \E s \in PresenceSockets : Connect(s)
    \/ \E s \in PresenceSockets, k \in RegisterInputs :
           CallsOf(Address(s)) < MaxCalls /\ Register(s, k)
    \/ /\ LongestList < MaxSubscribers
       /\ \E s \in PresenceSockets, l \in ListsUpTo(SubscribeInputs, MaxList) :
              Subscribe(s, l)
    \/ \E s \in PresenceSockets : Disconnect(s)

Spec == Init /\ [][Next]_vars

-----------------------------------------------------------------------------
(* The identity-addressed relay: request-connection between three          *)
(* connections and two identities.                                         *)

RelayRegisterInputs == {KeyA, KeyB}

NextRelay ==
    \/ \E s \in SocketIds : Connect(s)
    \/ \E s \in SocketIds, k \in RelayRegisterInputs :
           CallsOf(Address(s)) < MaxCalls /\ Register(s, k)
    \/ \E s \in SocketIds, to \in RelayTo, from \in RelayFrom :
           CallsOf(Address(s)) < MaxCalls /\ RequestConnection(s, to, from)
    \/ \E k \in RelayTo, subscription \in BOOLEAN :
           PushContinue(normKey(k), subscription)
    \/ \E s \in SocketIds : Disconnect(s)

SpecRelay == Init /\ [][NextRelay]_vars

-----------------------------------------------------------------------------
(* The room relay: three connections and two named rooms.  Clients name    *)
(* the rooms they agreed on; of the rooms socket.io names by socket id a   *)
(* client knows only its own.                                              *)

NextRoom ==
    \/ \E s \in SocketIds : Connect(s)
    \/ \E s \in SocketIds, r \in NamedRooms : Join(s, r)
    \/ \E s \in SocketIds, p \in Payloads :
           \E r \in NamedRooms \cup {s} : Auth(s, r, p)
    \/ \E s \in SocketIds, p \in Payloads :
           \E r \in NamedRooms \cup {s} : Signal(s, r, p)
    \/ \E s \in SocketIds : Disconnect(s)

SpecRoom == Init /\ [][NextRoom]_vars

-----------------------------------------------------------------------------
(* The rate limiter: one connection registering again and again while the  *)
(* clock moves by a window, a millisecond less or a millisecond more.      *)

ClockSteps == {TIME_FRAME - 1, TIME_FRAME, TIME_FRAME + 1}

NextRate ==
    \/ Connect("s1")
    \/ \E d \in ClockSteps :
           now + d <= MaxTicks * (TIME_FRAME + 1) /\ Tick(d)
    \/ CallsOf(Address("s1")) < MaxWinCalls /\ Register("s1", KeyA)

SpecRate == Init /\ [][NextRate]_vars

-----------------------------------------------------------------------------
(* The identity-addressed relay of acceptances and calls: s1 and s2        *)
(* register, every connection sends.                                       *)

CallTypes == {"video", "audio"}

NextCall ==
    \/ \E s \in SocketIds : Connect(s)
    \/ \E s \in PresenceSockets, k \in RelayRegisterInputs :
           CallsOf(Address(s)) < MaxCalls /\ Register(s, k)
    \/ \E s \in SocketIds, to \in RelayTo, from \in RelayFrom :
           AcceptConnection(s, to, from)
    \/ \E s \in SocketIds, to \in RelayTo, callType \in CallTypes :
           CallRequest(s, to, KeyATrail, callType)
    \/ \E s \in SocketIds, to \in RelayTo : CallAccepted(s, to, KeyATrail)
    \/ \E s \in SocketIds, to \in RelayTo : CallRejected(s, to, KeyB)
    \/ \E s \in SocketIds, to \in RelayTo : CallEnded(s, to, KeyATrail)
    \/ \E s \in SocketIds : Disconnect(s)

SpecCall == Init /\ [][NextCall]_vars

-----------------------------------------------------------------------------
(* Every relay handler next to a registry and subscription indices that    *)
(* are not empty: two connections, one room, one payload.                  *)

NextFrame ==
    \/ \E s \in PresenceSockets : Connect(s)
    \/ \E s \in PresenceSockets, k \in RelayRegisterInputs :
           CallsOf(Address(s)) < MaxCalls /\ Register(s, k)
    \/ LongestList < MaxSubscribers /\ Subscribe("s2", << KeyA >>)
    \/ \E s \in PresenceSockets, to \in RelayTo :
           CallsOf(Address(s)) < MaxCalls /\ RequestConnection(s, to, KeyB)
    \/ \E k \in RelayTo, subscription \in BOOLEAN :
           PushContinue(normKey(k), subscription)
    \/ \E s \in PresenceSockets, to \in RelayTo : AcceptConnection(s, to, KeyB)
    \/ \E s \in PresenceSockets, to \in RelayTo : CallRequest(s, to, KeyB, "video")
    \/ \E s \in PresenceSockets, to \in RelayTo : CallAccepted(s, to, KeyB)
    \/ \E s \in PresenceSockets, to \in RelayTo : CallRejected(s, to, KeyB)
    \/ \E s \in PresenceSockets, to \in RelayTo : CallEnded(s, to, KeyB)
    \/ \E s \in PresenceSockets : Join(s, "room1")
    \/ \E s \in PresenceSockets : Auth(s, "room1", "P1")
    \/ \E s \in PresenceSockets : Signal(s, "room1", "P1")
    \/ \E s \in PresenceSockets : Disconnect(s)

SpecFrame == Init /\ [][NextFrame]_vars

-----------------------------------------------------------------------------
(* Arguments at the edge: register with a blank, an empty or a missing     *)
(* identity, next to subscriptions that watch the blank identity, and      *)
(* subscribe-to-presence with a payload that is no array.                  *)

EdgeWatch == {KeyA, KeyBlank}
\* subscribe-to-presence payloads that are no array: missing, and a string
MalformedPayloads == {Undefined, KeyA}

NextEdge ==
    \/ \E s \in PresenceSockets : Connect(s)
    \/ \E s \in PresenceSockets, k \in EdgeInputs :
           CallsOf(Address(s)) < MaxCalls /\ Register(s, k)
    \/ /\ LongestList < MaxSubscribers
       /\ \E s \in PresenceSockets, l \in ListsUpTo(EdgeWatch, 1) : Subscribe(s, l)
    \/ \E s \in PresenceSockets, payload \in MalformedPayloads :
           SubscribeMalformed(s, payload)
    \/ \E s \in PresenceSockets : Disconnect(s)

SpecEdge == Init /\ [][NextEdge]_vars

-----------------------------------------------------------------------------
(* The rate limiter in front of register and request-connection: s1 and s2 *)
(* share an address; s2 watches "a", s1 registers and s2 sends requests    *)
(* until the window is used up.                                            *)

NextBlock ==
    \/ \E s \in PresenceSockets : Connect(s)
    \/ LongestList < MaxSubscribers /\ Subscribe("s2", << KeyA >>)
    \/ \E k \in RelayRegisterInputs :
           CallsOf(Address("s1")) < MaxWinCalls /\ Register("s1", k)
    \/ \E to \in RelayTo :
           CallsOf(Address("s2")) < MaxWinCalls /\ RequestConnection("s2", to, KeyB)
    \/ \E k \in RelayTo, subscription \in BOOLEAN :
           PushContinue(normKey(k), subscription)

SpecBlock == Init /\ [][NextBlock]_vars

-----------------------------------------------------------------------------
(* Vocabulary of the properties *)

Open(s) == status[s] = "open"

\* lookup(identity): the connection the registry resolves the identity to
Resolves(identity, s) ==
    Has(userSockets, normKey(identity)) /\ userSockets[normKey(identity)] = s

\* normalize(K) of a list of identities
NormSet(list) == {normKey(list[i]) : i \in DOMAIN list}

\* the identities whose reverse subscriber list contains s
WatchedBy(s) ==
    {k \in DOMAIN presenceSubscriptions : s \in Range(presenceSubscriptions[k])}

\* the forward watch list of s, empty when it has none
ForwardOf(s) == IF Has(socketSubscriptions, s) THEN socketSubscriptions[s] ELSE << >>

\* how many of the last handler's messages of event ev about identity k reach s
Received(s, ev, k, st) ==
    Cardinality({i \in DOMAIN emitted :
        /\ emitted[i].ev = ev
        /\ emitted[i].data = [pubKey |-> k, status |-> st]
        /\ s \in Recipients(emitted[i])})

RegisterRan == last.op = "register" /\ last.args.admitted /\ Truthy(last.args.pubKey)

SubscribeRan == last.op = "subscribe-to-presence"

DisconnectRan == last.op = "disconnect"

RequestRan == last.op = "request-connection" /\ last.args.admitted

AllInputs == RegisterInputs \cup SubscribeInputs \cup RelayTo \cup RelayFrom

\* the entries of list whose normalized identity is a key of the registry
RECURSIVE OnlineEntries(_)
OnlineEntries(list) ==
    IF list = << >> THEN << >>
    ELSE (IF normKey(Head(list)) \in DOMAIN userSockets THEN << Head(list) >> ELSE << >>)
         \o OnlineEntries(Tail(list))

-----------------------------------------------------------------------------
(* C1: after an admitted register(I, C) every identity that normalizes to  *)
(* the same key as I resolves to C; this holds of a later register of the  *)
(* same identity by another connection too, which therefore supersedes     *)
(* the first.                                                              *)
C1_RegisterThenLookup ==
    RegisterRan =>
        \A j \in AllInputs :
            normKey(j) = normKey(last.args.pubKey) => Resolves(j, last.sock)

\* s2 has just registered "a " while s1, still open, holds "a" from before
C1_Witness ==
    /\ RegisterRan
    /\ last.sock = "s2" /\ last.args.pubKey = KeyATrail
    /\ Open("s1") /\ dataPubKey["s1"] = KeyA
    /\ Resolves(KeyA, "s2")

(* C2: after subscribe(S, K) the identities whose reverse subscriber list  *)
(* contains S are exactly normalize(K), also for a resubscribe and for     *)
(* the empty list.                                                         *)
C2_SubscribeExact ==
    SubscribeRan => WatchedBy(last.sock) = NormSet(last.args.list)

(* C3: after the disconnect handler of S has run, no reverse subscriber    *)
(* list contains S.                                                        *)
C3_DisconnectClearsReverse ==
    DisconnectRan => WatchedBy(last.sock) = {}

(* C4: at rest the reverse index is the transpose of the forward index: S  *)
(* is in the subscriber list of I iff I is in the normalized watch list    *)
(* stored for S.                                                           *)
C4_Transpose ==
    \A s \in SocketIds : WatchedBy(s) = NormSet(ForwardOf(s))

C6_OfflineExactlyOnce ==
    (DisconnectRan /\ Truthy(last.args.held)) =>
        \A s \in Range(SubscribersOf(presenceSubscriptions, last.args.held)) :
            Open(s) => Received(s, "presence-update", last.args.held, "offline") = 1

(* C7: subscribe(S, K) emits one message, presence-initial-status, that    *)
(* reaches S and no one else and carries, in order, the entries of K whose *)
(* normalized identity is a key of the registry.                           *)
C7_InitialStatus ==
    SubscribeRan =>
        /\ Len(emitted) = 1
        /\ emitted[1].ev = "presence-initial-status"
        /\ Recipients(emitted[1]) = {last.sock}
        /\ emitted[1].data = OnlineEntries(last.args.list)

\* s1 holds "a"; s2 has just subscribed to ["a ", "b"] and is told ["a "]
C7_Witness ==
    /\ SubscribeRan
    /\ last.sock = "s2" /\ last.args.list = << KeyATrail, KeyB >>
    /\ Resolves(KeyA, "s1")
    /\ emitted[1].data = << KeyATrail >>

(* C8: with ceiling 20 and window 60000 ms, a call of isRateLimited is     *)
(* admitted iff it is among the first 20 of its window; a call at exactly  *)
(* windowStart + 60000 stays in the window; a call at windowStart + 60001  *)
(* is admitted and leaves the record at count 1 with the window starting   *)
(* at the time of the call.                                                *)
C8_RateWindow ==
    [][last'.op = "register" =>
        LET ip == Address(last'.sock)
            known == ip \in DOMAIN rateLimit
        IN  /\ last'.args.admitted <=> calls'[ip] <= 20
            /\ (known /\ now - rateLimit[ip].startTime = 60000) =>
                   /\ rateLimit'[ip].startTime = rateLimit[ip].startTime
                   /\ calls'[ip] = calls[ip] + 1
            /\ (known /\ now - rateLimit[ip].startTime = 60001) =>
                   /\ last'.args.admitted
                   /\ rateLimit'[ip] = [count |-> 1, startTime |-> now]
                   /\ calls'[ip] = 1
      ]_vars

\* the 21st call of a window, made at exactly windowStart + 60000, is blocked
C8_Witness ==
    /\ last.op = "register" /\ ~last.args.admitted
    /\ calls[Address(last.sock)] = 21
    /\ now - rateLimit[Address(last.sock)].startTime = 60000

(* C9: an admitted request-connection({to, from}) to a registered identity *)
(* delivers exactly one incoming-request {from: normalize(from)}, to the   *)
(* connection the registry maps normalize(to) to and to no one else, and   *)
(* does not consult the push bridge; to an identity that is not registered *)
(* it delivers nothing and consults the push bridge with that identity.    *)
C9_RequestDelivered ==
    RequestRan =>
        LET toKey == normKey(last.args.to)
            fromKey == normKey(last.args.from)
        IN  IF Has(userSockets, toKey)
            THEN /\ Len(emitted) = 1
                 /\ emitted[1].ev = "incoming-request"
                 /\ emitted[1].data = [from |-> fromKey]
                 /\ Recipients(emitted[1]) = {userSockets[toKey]}
                 /\ bridge = << >>
            ELSE /\ emitted = << >>
                 /\ bridge = << [call |-> "getItem", key |-> toKey] >>

(* C10: a signal or auth {room, payload} is emitted once, with room and    *)
(* payload unchanged, and reaches exactly the members of the room other    *)
(* than the sender.                                                        *)
C10_RoomRelay ==
    last.op \in {"signal", "auth"} =>
        /\ Len(emitted) = 1
        /\ emitted[1].ev = last.op
        /\ emitted[1].data = [room |-> last.args.room, payload |-> last.args.payload]
        /\ \A s \in SocketIds :
               s \in Recipients(emitted[1])
                   <=> (s # last.sock /\ s \in rooms[last.args.room])

\* s1 signals room1, which it shares with s2; s3 is connected and not in it
C10_Witness ==
    /\ last.op = "signal" /\ last.sock = "s1" /\ last.args.room = "room1"
    /\ rooms["room1"] = {"s1", "s2"}
    /\ Open("s3")
    /\ Recipients(emitted[1]) = {"s2"}

\* the identities the registry maps to connection s
IdentitiesOf(s) == {k \in DOMAIN userSockets : userSockets[k] = s}

(* C11: in every reachable state each connection is the registry value of  *)
(* at most one identity, also after one connection has registered two      *)
(* different identities in succession.                                     *)
C11_OneIdentityPerConnection ==
    \A s \in SocketIds : Cardinality(IdentitiesOf(s)) <= 1

(* C12: after the disconnect handler of connection C has run, the registry *)
(* has no identity that resolves to C and the forward index has no entry   *)
(* for C, whatever C registered or subscribed to in its lifetime.          *)
C12_DisconnectClearsAll ==
    DisconnectRan =>
        /\ IdentitiesOf(last.sock) = {}
        /\ ~Has(socketSubscriptions, last.sock)

(* C13: a register whose identity is missing, or empty once normalized (a  *)
(* string of whitespace included), is a silent no-op: the registry, the    *)
(* identity the connection holds and both subscription indices stay as     *)
(* they are and no presence-update is emitted.                             *)
C13_EmptyRegisterNoOp ==
    [][(/\ last'.op = "register"
        /\ (last'.args.pubKey = Undefined \/ normKey(last'.args.pubKey) = << >>))
       => /\ UNCHANGED <<userSockets, dataPubKey,
                         presenceSubscriptions, socketSubscriptions>>
          /\ \A i \in DOMAIN emitted' : emitted'[i].ev # "presence-update"
      ]_vars

(* C14: a register or a request-connection that isRateLimited blocks       *)
(* changes nothing and emits nothing: the registry, the identity the       *)
(* connection holds, both subscription indices and the rate-limit record   *)
(* of the address stay as they are, nothing is emitted to anyone, the      *)
(* sender included, and the push bridge is not consulted.                  *)
C14_BlockedNoEffect ==
    [][(last'.op \in {"register", "request-connection"} /\ ~last'.args.admitted)
       => /\ UNCHANGED <<userSockets, dataPubKey, presenceSubscriptions,
                         socketSubscriptions, rateLimit, pending>>
          /\ emitted' = << >>
          /\ bridge' = << >>
      ]_vars

\* the register of "a" by s1 is blocked while s2, open, watches "a" and "a"
\* is not registered: nothing is stored and s2 is told nothing
C14_Witness ==
    /\ last.op = "register" /\ ~last.args.admitted
    /\ last.sock = "s1" /\ last.args.pubKey = KeyA
    /\ Open("s2") /\ "s2" \in Range(SubscribersOf(presenceSubscriptions, KeyA))
    /\ ~Has(userSockets, KeyA)
    /\ rateLimit[Address("s1")].count = LIMIT
    /\ emitted = << >>

\* the handlers of the relay, and the continuation of request-connection
RelayOps == {"request-connection", "push", "accept-connection", "call-request",
             "call-accepted", "call-rejected", "call-ended", "join", "auth",
             "signal"}

(* C15: every relay operation (request-connection and its push            *)
(* continuation, accept-connection, call-request, call-accepted,           *)
(* call-rejected, call-ended, join, auth, signal) leaves the registry and  *)
(* both subscription indices as they were, whatever the push bridge does.  *)
C15_RelayFrame ==
    [][last'.op \in RelayOps
       => UNCHANGED <<userSockets, presenceSubscriptions, socketSubscriptions>>
      ]_vars

\* the push to "b" has just been attempted, and "b" registered meanwhile;
\* the registry and the indices hold entries
C15_Witness ==
    /\ last.op = "push" /\ last.args.to = KeyB
    /\ bridge = << [call |-> "sendNotification", key |-> KeyB] >>
    /\ Has(userSockets, KeyB)
    /\ Has(presenceSubscriptions, KeyA)
    /\ Has(socketSubscriptions, "s2")

\* the identity-addressed handlers of lines 280-322 and the event each emits
CallOps == {"accept-connection", "call-request", "call-accepted",
            "call-rejected", "call-ended"}

EventOf(op) == IF op = "accept-connection" THEN "connection-accepted"
               ELSE IF op = "call-request" THEN "incoming-call"
               ELSE op

(* C16: accept-connection, call-request, call-accepted, call-rejected and  *)
(* call-ended with fields {to, from}: when normalize(to) is registered,    *)
(* exactly one event (connection-accepted, incoming-call with the          *)
(* callType, call-accepted, call-rejected, call-ended) carrying            *)
(* from = normalize(from) is delivered, to the connection the registry     *)
(* maps normalize(to) to and to no other; when it is not registered,       *)
(* nothing is delivered and no error is raised.                            *)
C16_CallDelivered ==
    last.op \in CallOps =>
        LET toKey == normKey(last.args.to)
            fromKey == normKey(last.args.from)
        IN  /\ ~last.args.threw
            /\ IF Has(userSockets, toKey)
               THEN /\ Len(emitted) = 1
                    /\ emitted[1].ev = EventOf(last.op)
                    /\ emitted[1].data =
                           IF last.op = "call-request"
                           THEN [from |-> fromKey, callType |-> last.args.callType]
                           ELSE [from |-> fromKey]
                    /\ Recipients(emitted[1]) = {userSockets[toKey]}
               ELSE emitted = << >>

(* C17: an admitted register(I) by connection A and a subscribe([I]) by    *)
(* connection B, run one right after the other in either order with A     *)
(* connected.  Register first: the presence-initial-status reply to B      *)
(* holds I.  Subscribe first: B receives presence-update {I, online}.      *)
(* Either way the registry maps I to A, B is in the reverse list of I and  *)
(* its forward list is [I]; the second handler leaves untouched what the   *)
(* first one wrote (the registry, or the two indices), so the registry and *)
(* both indices do not depend on the order.                                *)
C17_EitherOrder ==
    [][LET I == last'.args.pubKey
           K == last'.args.list
       IN  /\ (/\ RegisterRan
               /\ last'.op = "subscribe-to-presence"
               /\ K = << last.args.pubKey >>)
              => /\ Len(emitted') = 1
                 /\ emitted'[1].ev = "presence-initial-status"
                 /\ last.args.pubKey \in Range(emitted'[1].data)
                 /\ last'.sock \in rooms'[emitted'[1].to] \ emitted'[1].except
                 /\ userSockets' = userSockets
                 /\ Has(userSockets', normKey(last.args.pubKey))
                 /\ userSockets'[normKey(last.args.pubKey)] = last.sock
                 /\ last'.sock \in Range(SubscribersOf(presenceSubscriptions',
                                                     normKey(last.args.pubKey)))
                 /\ Has(socketSubscriptions', last'.sock)
                 /\ socketSubscriptions'[last'.sock] = K
           /\ (/\ SubscribeRan
               /\ last'.op = "register" /\ last'.args.admitted /\ Truthy(I)
               /\ last.args.list = << I >>)
              => /\ \E i \in DOMAIN emitted' :
                        /\ emitted'[i].ev = "presence-update"
                        /\ emitted'[i].data = [pubKey |-> normKey(I), status |-> "online"]
                        /\ last.sock \in rooms'[emitted'[i].to] \ emitted'[i].except
                 /\ UNCHANGED <<presenceSubscriptions, socketSubscriptions>>
                 /\ Has(userSockets', normKey(I))
                 /\ userSockets'[normKey(I)] = last'.sock
                 /\ last.sock \in Range(SubscribersOf(presenceSubscriptions', normKey(I)))
                 /\ Has(socketSubscriptions', last.sock)
                 /\ socketSubscriptions'[last.sock] = last.args.list
      ]_vars

\* s2 watches ["a "] and s1 has just registered "a ": s2 is told that "a"
\* is online
C17_Witness ==
    /\ RegisterRan /\ last.sock = "s1" /\ last.args.pubKey = KeyATrail
    /\ Open("s2") /\ ForwardOf("s2") = << KeyATrail >>
    /\ Received("s2", "presence-update", KeyA, "online") = 1
    /\ Resolves(KeyATrail, "s1")

(* C18: a subscribe-to-presence whose payload is missing or is not a list  *)
(* is a silent no-op: the handler finishes without a fatal error, the      *)
(* subscriptions the connection had in both indices stay as they are, and  *)
(* nothing is emitted.                                                     *)
C18_MalformedSubscribe ==
    [][(last'.op = "subscribe-to-presence" /\ last'.args.malformed)
       => /\ ~last'.args.threw
          /\ UNCHANGED <<presenceSubscriptions, socketSubscriptions>>
          /\ emitted' = << >>
      ]_vars

(* C19: when connection C1 registered identity I and another connection   *)
(* C2, still connected, registered I after it, the disconnect of C1 leaves *)
(* lookup(I) = C2 and emits no presence-update {I, offline}; a disconnect  *)
(* removes a registry entry only when the entry maps to the disconnecting  *)
(* connection.                                                             *)
C19_SupersededDisconnect ==
    [][last'.op = "disconnect"
       => /\ \A k \in DOMAIN userSockets :
                 userSockets[k] # last'.sock
                     => (Has(userSockets', k) /\ userSockets'[k] = userSockets[k])
          /\ \A k \in DOMAIN userSockets :
                 (/\ k = last'.args.held
                  /\ userSockets[k] # last'.sock
                  /\ status[userSockets[k]] = "open")
                     => \A i \in DOMAIN emitted' :
                            emitted'[i].data # [pubKey |-> k, status |-> "offline"]
      ]_vars

(* C20: after any sequence of register, subscribe and disconnect, for      *)
(* every connected subscriber S and every identity I of the normalized     *)
(* watch set of the latest subscribe of S, the status S was last told for  *)
(* I (the latest presence-update about I since that subscribe, else online *)
(* if the presence-initial-status reply held I, else offline) is online    *)
(* exactly when I is a key of the registry.                                *)
C20_ToldMatchesRegistry ==
    \A s \in DOMAIN told :
        Open(s) =>
            /\ DOMAIN told[s] = NormSet(ForwardOf(s))
            /\ \A k \in DOMAIN told[s] :
                   (told[s][k] = "online") <=> Has(userSockets, k)

\* s1 watches "a" and "b"; s2 has just registered "b": s1 was told so by a
\* presence-update, and that "a" is offline by the reply to its subscribe
C20_Witness ==
    /\ Open("s1") /\ Open("s2") /\ Has(told, "s1")
    /\ told["s1"] = (KeyA :> "offline" @@ KeyB :> "online")
    /\ RegisterRan /\ last.sock = "s2" /\ last.args.pubKey = KeyB
    /\ Received("s1", "presence-update", KeyB, "online") = 1
    /\ Resolves(KeyB, "s2") /\ ~Has(userSockets, KeyA)
====
